---- MODULE Spec2Model ----
(***************************************************************************)
(* Model of supabase_server.py: an in-memory table store behind one        *)
(* dispatch endpoint, POST /mcp/{function_name}.                           *)
(*                                                                         *)
(* JSON values are modelled as strings; JSON null / Python None is the     *)
(* distinguished value Null.  A JSON object is a function from field names *)
(* to values, the empty object being EmptyMap.  The module-level dict      *)
(* `tables` is the record [keys, rows]: keys is the dict's insertion order *)
(* (what list(tables.keys()) returns) and rows maps each key to its list   *)
(* of records.                                                             *)
(***************************************************************************)
EXTENDS Integers, Sequences, FiniteSets, TLC

VARIABLES tables, uuidCount, req, resp, prev, prevUuid, nOps, inflight, log

vars == <<tables, uuidCount, req, resp, prev, prevUuid, nOps, inflight, log>>

----------------------------------------------------------------------------
(* Bounds of the model *)

\* number of requests handled in a run of Spec
MaxOps == 3

\* number of requests handled in a run of SpecConc
MaxConcOps == 3

----------------------------------------------------------------------------
(* JSON values and Python helpers *)

\* Python None (JSON null, or the default of parameters.get for an absent key)
Null == "<None>"

\* the empty JSON object {}
EmptyMap == <<>>

\* str(v) as the f-strings of the error messages format it
Str(v) == IF v = Null THEN "None" ELSE v

\* Python truthiness of a scalar parameter: None and "" are falsy
Truthy(v) == v # Null /\ v # ""

\* d[k] = v on a dict
SetField(d, k, v) == [x \in (DOMAIN d) \cup {k} |-> IF x = k THEN v ELSE d[x]]

\* record.get("id")
IdOf(record) == IF "id" \in DOMAIN record THEN record["id"] ELSE Null

\* the values str(uuid.uuid4()) returns, in the order of the calls
UuidPool == << "u1", "u2", "u3", "u4", "u5", "u6", "u7", "u8", "u9", "u10",
               "u11", "u12", "u13", "u14", "u15", "u16" >>

Uuid(n) == UuidPool[n]

----------------------------------------------------------------------------
(* The seed store *)

SeedTables ==
  [ keys |-> << "users", "posts", "comments" >>,
    rows |-> [ users |->
                 << [id |-> "1", name |-> "John Doe", email |-> "john@example.com"],
                    [id |-> "2", name |-> "Jane Smith", email |-> "jane@example.com"] >>,
               posts |->
                 << [id |-> "1", title |-> "First Post", content |-> "Hello World", user_id |-> "1"],
                    [id |-> "2", title |-> "Second Post", content |-> "Another post", user_id |-> "2"] >>,
               comments |->
                 << [id |-> "1", post_id |-> "1", user_id |-> "2", content |-> "Great post!"],
                    [id |-> "2", post_id |-> "1", user_id |-> "1", content |-> "Thanks!"] >> ] ]

\* table_name in tables
HasTable(tbls, t) == t \in DOMAIN tbls.rows

----------------------------------------------------------------------------
(* Responses *)

ErrorResp(msg) == [error |-> msg]

SuccessResp == [success |-> TRUE]

TableRequired == ErrorResp("table parameter is required")
IdRequired == ErrorResp("id parameter is required")
RecordsRequired == ErrorResp("records parameter is required")
UpdatesRequired == ErrorResp("updates parameter is required")
TableNotFound(t) == ErrorResp("Table " \o Str(t) \o " not found")
RecordNotFound(id, t) ==
  ErrorResp("Record with id " \o Str(id) \o " not found in table " \o Str(t))
NotSupported(fn) == ErrorResp("Function " \o fn \o " not supported")
InvalidJson == ErrorResp("Invalid JSON in request body")
\* str(e) of the AttributeError raised by record.get on a JSON number
NotAMapping == ErrorResp("'int' object has no attribute 'get'")

IsError(r) == "error" \in DOMAIN r

----------------------------------------------------------------------------
(* query: lines 65-89 *)

\* Matches with the presence test dropped: an absent key no longer rejects
MatchesPresentKeys(item, filters) ==
  ~ \E key \in DOMAIN filters : key \in DOMAIN item /\ item[key] # filters[key]

\* the inner loop over filters.items(): the item is rejected as soon as one
\* key is absent from it or carries another value
Matches(item, filters) ==
  ~ \E key \in DOMAIN filters : key \notin DOMAIN item \/ item[key] # filters[key]

\* the outer loop: filtered_results, in table order
RECURSIVE FilterRows(_, _)
FilterRows(results, filters) ==
  IF results = << >> THEN << >>
  ELSE IF Matches(Head(results), filters)
       THEN << Head(results) >> \o FilterRows(Tail(results), filters)
       ELSE FilterRows(Tail(results), filters)

QueryResult(tbls, r) ==
  IF ~Truthy(r.table) THEN TableRequired
  ELSE IF ~HasTable(tbls, r.table) THEN TableNotFound(r.table)
  ELSE IF DOMAIN r.filters # {}
       THEN [data |-> FilterRows(tbls.rows[r.table], r.filters)]
       ELSE [data |-> tbls.rows[r.table]]

----------------------------------------------------------------------------
(* insert: lines 91-111 *)

\* tables[table_name] = [] when the name is unknown
CreateTable(tbls, t) ==
  IF HasTable(tbls, t) THEN tbls
  ELSE [keys |-> Append(tbls.keys, t), rows |-> SetField(tbls.rows, t, << >>)]

\* RecordId that always takes the generated id
RecordIdRegenerated(record, fresh) == fresh

\* record.get("id", str(uuid.uuid4())): the record's own id when the key is
\* present (whatever its value), else the freshly generated one
RecordId(record, fresh) == IF "id" \in DOMAIN record THEN record["id"] ELSE fresh

\* the loop over records. An entry that is not a JSON object has no .get:
\* the AttributeError leaves the loop, and what was appended stays appended.
\* uuid.uuid4() is evaluated for every object entry, as the default argument.
RECURSIVE InsertLoop(_, _, _, _, _)
InsertLoop(tbls, t, records, cnt, ids) ==
  IF records = << >>
  THEN [tables |-> tbls, uuid |-> cnt, result |-> [ids |-> ids, success |-> TRUE]]
  ELSE LET entry == Head(records) IN
       IF entry.kind # "object"
       THEN [tables |-> tbls, uuid |-> cnt, result |-> NotAMapping]
       ELSE LET record_id == RecordId(entry.fields, Uuid(cnt + 1))
                record == SetField(entry.fields, "id", record_id)
            IN InsertLoop([tbls EXCEPT !.rows[t] = Append(@, record)], t,
                          Tail(records), cnt + 1, Append(ids, record_id))

InsertOutcome(tbls, cnt, r) ==
  IF ~Truthy(r.table) THEN [tables |-> tbls, uuid |-> cnt, result |-> TableRequired]
  ELSE IF r.records = << >>
       THEN [tables |-> tbls, uuid |-> cnt, result |-> RecordsRequired]
  ELSE InsertLoop(CreateTable(tbls, r.table), r.table, r.records, cnt, << >>)

----------------------------------------------------------------------------
(* update: lines 113-138, delete: lines 140-160 *)

\* FirstMatch without the break: the scan runs on and the last match wins
LastMatch(rows, record_id) ==
  IF \E i \in 1..Len(rows) : IdOf(rows[i]) = record_id
  THEN CHOOSE i \in 1..Len(rows) :
         /\ IdOf(rows[i]) = record_id
         /\ \A j \in (i + 1)..Len(rows) : IdOf(rows[j]) # record_id
  ELSE 0

\* enumerate(tables[table_name]) up to the break: the index of the first record
\* whose record.get("id") equals record_id, 0 when the loop runs to its else
FirstMatch(rows, record_id) ==
  IF \E i \in 1..Len(rows) : IdOf(rows[i]) = record_id
  THEN CHOOSE i \in 1..Len(rows) :
         /\ IdOf(rows[i]) = record_id
         /\ \A j \in 1..(i - 1) : IdOf(rows[j]) # record_id
  ELSE 0

\* Merge that stores the updates in place of the record
MergeReplaces(record, updates) == updates

\* for key, value in updates.items(): tables[table_name][i][key] = value
Merge(record, updates) ==
  [x \in (DOMAIN record) \cup (DOMAIN updates) |->
     IF x \in DOMAIN updates THEN updates[x] ELSE record[x]]

UpdateOutcome(tbls, r) ==
  IF ~Truthy(r.table) THEN [tables |-> tbls, result |-> TableRequired]
  ELSE IF ~Truthy(r.id) THEN [tables |-> tbls, result |-> IdRequired]
  ELSE IF DOMAIN r.updates = {} THEN [tables |-> tbls, result |-> UpdatesRequired]
  ELSE IF ~HasTable(tbls, r.table)
       THEN [tables |-> tbls, result |-> TableNotFound(r.table)]
  ELSE LET i == FirstMatch(tbls.rows[r.table], r.id) IN
       IF i = 0
       THEN [tables |-> tbls, result |-> RecordNotFound(r.id, r.table)]
       ELSE [tables |-> [tbls EXCEPT !.rows[r.table][i] = Merge(@, r.updates)],
             result |-> SuccessResp]

\* DeleteAt that removes every record carrying the id of record i
DeleteAllWithId(rows, i) ==
  LET Other(rec) == IdOf(rec) # IdOf(rows[i]) IN SelectSeq(rows, Other)

\* del tables[table_name][i]
DeleteAt(rows, i) == SubSeq(rows, 1, i - 1) \o SubSeq(rows, i + 1, Len(rows))

\* DeleteRow that also drops the table once its last record is gone
DeleteRowDropEmpty(tbls, t, i) ==
  IF Len(tbls.rows[t]) = 1
  THEN [keys |-> SelectSeq(tbls.keys, LAMBDA k : k # t),
        rows |-> [u \in DOMAIN tbls.rows \ {t} |-> tbls.rows[u]]]
  ELSE [tbls EXCEPT !.rows[t] = SubSeq(@, 1, i - 1) \o SubSeq(@, i + 1, Len(@))]

\* the store after del tables[table_name][i]: the key stays, even when the
\* list becomes empty
DeleteRow(tbls, t, i) == [tbls EXCEPT !.rows[t] = DeleteAt(@, i)]

DeleteOutcome(tbls, r) ==
  IF ~Truthy(r.table) THEN [tables |-> tbls, result |-> TableRequired]
  ELSE IF ~Truthy(r.id) THEN [tables |-> tbls, result |-> IdRequired]
  ELSE IF ~HasTable(tbls, r.table)
       THEN [tables |-> tbls, result |-> TableNotFound(r.table)]
  ELSE LET i == FirstMatch(tbls.rows[r.table], r.id) IN
       IF i = 0
       THEN [tables |-> tbls, result |-> RecordNotFound(r.id, r.table)]
       ELSE [tables |-> DeleteRow(tbls, r.table, i), result |-> SuccessResp]

----------------------------------------------------------------------------
(* the dispatch: lines 55-175, everything after the await of line 57 *)

Handle(tbls, cnt, r) ==
  IF ~r.json THEN [tables |-> tbls, uuid |-> cnt, result |-> InvalidJson]
  ELSE IF r.fn = "query"
       THEN [tables |-> tbls, uuid |-> cnt, result |-> QueryResult(tbls, r)]
  ELSE IF r.fn = "insert" THEN InsertOutcome(tbls, cnt, r)
  ELSE IF r.fn = "update"
       THEN LET o == UpdateOutcome(tbls, r)
            IN [tables |-> o.tables, uuid |-> cnt, result |-> o.result]
  ELSE IF r.fn = "delete"
       THEN LET o == DeleteOutcome(tbls, r)
            IN [tables |-> o.tables, uuid |-> cnt, result |-> o.result]
  ELSE IF r.fn = "list_tables"
       THEN [tables |-> tbls, uuid |-> cnt, result |-> [tables |-> tbls.keys]]
  ELSE [tables |-> tbls, uuid |-> cnt, result |-> NotSupported(r.fn)]

----------------------------------------------------------------------------
(* Requests: the function name of the path and the parsed JSON body.  An    *)
(* absent key and a JSON null are both Null for table and id               *)
(* (parameters.get); an absent filters, updates or records is the empty    *)
(* default the code gives it.                                              *)

Request(fn, table, id, filters, records, updates) ==
  [fn |-> fn, json |-> TRUE, table |-> table, id |-> id, filters |-> filters,
   records |-> records, updates |-> updates]

NoRequest == [Request("none", Null, Null, EmptyMap, << >>, EmptyMap) EXCEPT !.json = FALSE]

\* a record entry that is a JSON object, and one that is a JSON number
Object(fields) == [kind |-> "object", fields |-> fields]
Number == [kind |-> "number", fields |-> EmptyMap]

\* table arguments: a seed table and a table that does not exist yet (the
\* request sets add the absent table, Null, and the empty name)
TableArgs == {"users", "logs"}

\* id arguments: a seed id, an id no seed record has, the empty string, none
IdArgs == {"1", "9", "", Null}

FilterArgs == { [name |-> "John Doe"], [id |-> "9", nick |-> "e"] }

RecordArgs ==
  { << Object([name |-> "Ann"]), Object([id |-> "1", name |-> "Dup"]) >>,
    << Object([id |-> "9"]) >>,
    << Object([id |-> ""]) >>,
    << Object([id |-> Null, name |-> "Nil"]) >>,
    << Object([name |-> "Bob"]), Number >> }

QueryRequests ==
  { Request("query", t, Null, EmptyMap, << >>, EmptyMap) : t \in TableArgs \cup {Null, ""} }
    \cup { Request("query", "users", Null, f, << >>, EmptyMap) : f \in FilterArgs }

InsertRequests ==
  { Request("insert", t, Null, EmptyMap, recs, EmptyMap) : t \in TableArgs, recs \in RecordArgs }
    \cup { Request("insert", Null, Null, EmptyMap, << Object([id |-> "9"]) >>, EmptyMap),
           Request("insert", "", Null, EmptyMap, << Object([id |-> "9"]) >>, EmptyMap),
           Request("insert", "logs", Null, EmptyMap, << >>, EmptyMap) }

UpdateRequests ==
  { Request("update", t, id, EmptyMap, << >>, [name |-> "Ed"]) :
      t \in TableArgs, id \in IdArgs \ {Null} }
    \cup { Request("update", "users", id, EmptyMap, << >>, [id |-> "9", nick |-> "e"]) :
             id \in {"1", "9"} }
    \cup { Request("update", "users", "1", EmptyMap, << >>, EmptyMap),
           Request("update", "users", Null, EmptyMap, << >>, [name |-> "Ed"]),
           Request("update", Null, "1", EmptyMap, << >>, [name |-> "Ed"]) }

DeleteRequests ==
  { Request("delete", t, id, EmptyMap, << >>, EmptyMap) : t \in TableArgs, id \in IdArgs }
    \cup { Request("delete", Null, "1", EmptyMap, << >>, EmptyMap) }

ListTablesRequest == Request("list_tables", Null, Null, EmptyMap, << >>, EmptyMap)

UnsupportedRequest == Request("drop", "users", Null, EmptyMap, << >>, EmptyMap)

\* a body that json.loads rejects
BadBodyRequest == [Request("query", Null, Null, EmptyMap, << >>, EmptyMap) EXCEPT !.json = FALSE]

----------------------------------------------------------------------------
(* State.  tables and uuidCount are the program's; req, resp, prev and     *)
(* prevUuid record the last request handled, its response and the store    *)
(* before it; inflight and log belong to the concurrent specification.     *)

Clients == {1, 2}

Idle == [state |-> "idle"]

Init ==
  /\ tables = SeedTables
  /\ uuidCount = 0
  /\ req = NoRequest
  /\ resp = [none |-> TRUE]
  /\ prev = SeedTables
  /\ prevUuid = 0
  /\ nOps = 0
  /\ inflight = [c \in Clients |-> Idle]
  /\ log = << >>

\* handle_mcp_request on one request, from the parsed body to the return
HandleMcpRequest(r) ==
  /\ nOps < MaxOps
  /\ LET h == Handle(tables, uuidCount, r) IN
       /\ tables' = h.tables
       /\ uuidCount' = h.uuid
       /\ resp' = h.result
  /\ req' = r
  /\ prev' = tables
  /\ prevUuid' = uuidCount
  /\ nOps' = nOps + 1
  /\ UNCHANGED << inflight, log >>

Query == \E r \in QueryRequests : HandleMcpRequest(r)
Insert == \E r \in InsertRequests : HandleMcpRequest(r)
Update == \E r \in UpdateRequests : HandleMcpRequest(r)
Delete == \E r \in DeleteRequests : HandleMcpRequest(r)
ListTables == HandleMcpRequest(ListTablesRequest)
Unsupported == HandleMcpRequest(UnsupportedRequest)
BadBody == HandleMcpRequest(BadBodyRequest)

Next == Query \/ Insert \/ Update \/ Delete \/ ListTables \/ Unsupported \/ BadBody

Spec == Init /\ [][Next]_vars

----------------------------------------------------------------------------
(* Concurrent handling.  handle_mcp_request is a coroutine on one event     *)
(* loop: it suspends once, at `await request.body()` (line 57), before it  *)
(* reads or writes `tables`; from the parsed body to the return it has no  *)
(* await, so it runs without another coroutine in between.  inflight[c] is *)
(* the coroutine of client c: idle, or suspended at line 57 with its       *)
(* request and the store as it was when the request arrived.  log is the   *)
(* sequence of handled requests with their responses, in the order the     *)
(* handlers resumed.                                                       *)

ConcRequests ==
  { Request("insert", "logs", Null, EmptyMap,
            << Object([name |-> "Ann"]), Object([id |-> "1", name |-> "Dup"]) >>, EmptyMap),
    Request("insert", "users", Null, EmptyMap, << Object([id |-> "9"]) >>, EmptyMap),
    Request("update", "users", "1", EmptyMap, << >>, [name |-> "Ed"]),
    Request("delete", "users", "1", EmptyMap, << >>, EmptyMap),
    Request("query", "users", Null, [name |-> "John Doe"], << >>, EmptyMap),
    ListTablesRequest }

Suspended(c) == inflight[c].state = "await_body"

\* the handler is called for client c and suspends at line 57
AwaitBody(c) ==
  /\ ~Suspended(c)
  /\ nOps + Cardinality({ d \in Clients : Suspended(d) }) < MaxConcOps
  /\ \E r \in ConcRequests :
       inflight' = [inflight EXCEPT ![c] =
                      [state |-> "await_body", request |-> r, arrival |-> tables]]
  /\ UNCHANGED << tables, uuidCount, req, resp, prev, prevUuid, nOps, log >>

\* StoreAtResume for a handler that read the store before its await
StoreAtArrival(c) == inflight[c].arrival

\* the store the code after the await works on: the module global, as it is
\* when the coroutine resumes
StoreAtResume(c) == tables

\* the coroutine of client c resumes with the body and runs to its return
Resume(c) ==
  /\ Suspended(c)
  /\ LET r == inflight[c].request
         h == Handle(StoreAtResume(c), uuidCount, r)
     IN /\ tables' = h.tables
        /\ uuidCount' = h.uuid
        /\ resp' = h.result
        /\ req' = r
        /\ log' = Append(log, [request |-> r, result |-> h.result,
                               arrival |-> inflight[c].arrival])
  /\ prev' = tables
  /\ prevUuid' = uuidCount
  /\ nOps' = nOps + 1
  /\ inflight' = [inflight EXCEPT ![c] = Idle]

NextConc == \E c \in Clients : AwaitBody(c) \/ Resume(c)

SpecConc == Init /\ [][NextConc]_vars

----------------------------------------------------------------------------
(* Vocabulary of the properties *)

\* the last request was function fn with a body that parsed
Handled(fn) == req.json /\ req.fn = fn

\* the rows table t held before the last request (none when it was unknown)
RowsBefore(t) == IF HasTable(prev, t) THEN prev.rows[t] ELSE << >>

\* the positions of rows whose id is id
Holders(rows, id) == { i \in 1..Len(rows) : IdOf(rows[i]) = id }

\* the least position of a non-empty set of positions
Least(S) == CHOOSE i \in S : \A j \in S : i <= j

\* rows without position i
Without(rows, i) == [ j \in 1..(Len(rows) - 1) |-> IF j < i THEN rows[j] ELSE rows[j + 1] ]

\* every table other than t is what it was before the last request
OthersUnchanged(t) ==
  /\ DOMAIN tables.rows \ {t} = DOMAIN prev.rows \ {t}
  /\ \A u \in DOMAIN prev.rows \ {t} : tables.rows[u] = prev.rows[u]

NotFoundText(id, t) == "Record with id " \o id \o " not found in table " \o t

----------------------------------------------------------------------------
\* C1: for an existing table T and a filter mapping F, query(T, F) returns
\* {data: D} with D exactly the records of T, in table order, that have every
\* key of F present with F's value; with F empty or omitted D is all of T; and
\* query never changes the store.
C1_QueryReturnsMatching ==
  (Handled("query") /\ HasTable(prev, req.table)) =>
    LET F == req.filters
        Selected(rec) == \A k \in DOMAIN F : k \in DOMAIN rec /\ rec[k] = F[k]
    IN /\ resp = [data |-> SelectSeq(prev.rows[req.table], Selected)]
       /\ (DOMAIN F = {} => resp = [data |-> prev.rows[req.table]])
       /\ ((prev = SeedTables /\ req.table = "users" /\ F = [name |-> "John Doe"]) =>
             resp = [data |-> << [id |-> "1", name |-> "John Doe",
                                  email |-> "john@example.com"] >>])
       /\ tables = prev

\* a filtered query that kept some records of a table and dropped others, one
\* of the dropped ones lacking a key of the filter
C1_Witness ==
  /\ Handled("query") /\ HasTable(prev, req.table)
  /\ DOMAIN req.filters # {}
  /\ "data" \in DOMAIN resp
  /\ Len(resp.data) >= 1
  /\ Len(resp.data) < Len(prev.rows[req.table])
  /\ \E i \in 1..Len(prev.rows[req.table]) :
       \E k \in DOMAIN req.filters : k \notin DOMAIN prev.rows[req.table][i]

----------------------------------------------------------------------------
\* the effect of a delete that answered {success: true}: exactly the first
\* record with the id is gone and the table is one record shorter
DeleteRemovedFirst ==
  (Handled("delete") /\ resp = SuccessResp) =>
    /\ HasTable(prev, req.table)
    /\ Holders(prev.rows[req.table], req.id) # {}
    /\ Len(tables.rows[req.table]) = Len(prev.rows[req.table]) - 1
    /\ tables.rows[req.table] =
         Without(prev.rows[req.table], Least(Holders(prev.rows[req.table], req.id)))

\* the same delete request is handled again, right after it succeeded
DeleteRepeated ==
  Handled("delete") /\ resp = SuccessResp /\ req' = req /\ nOps' = nOps + 1

\* C2 (as amended): a delete(T, id) that answers {success: true} removes
\* exactly one record, the first one with that id, and shortens T by exactly
\* one; the same delete repeated right afterwards reports "Record with id <id>
\* not found in table <T>" exactly when no other record of T carried that id,
\* and succeeds again when one did.
C2_DeleteOnceThenNotFoundUnlessDuplicate ==
  [][ /\ DeleteRemovedFirst'
      /\ DeleteRepeated =>
           resp' = IF Holders(tables.rows[req.table], req.id) = {}
                   THEN [error |-> NotFoundText(req.id, req.table)]
                   ELSE SuccessResp ]_vars

\* C2 (as claimed, for the ids the validation of delete accepts): delete(T, id)
\* on a table holding a record with that id removes exactly the first matching
\* record and shortens T by one, and the same delete repeated afterwards
\* reports the not-found error.
C2_DeleteThenNotFound ==
  [][ /\ (Handled("delete") /\ Truthy(req.id)
            /\ Holders(RowsBefore(req.table), req.id) # {})' =>
           (/\ Len(tables.rows[req.table]) = Len(prev.rows[req.table]) - 1
            /\ tables.rows[req.table] =
                 Without(prev.rows[req.table],
                         Least(Holders(prev.rows[req.table], req.id))))'
      /\ (/\ Handled("delete") /\ Truthy(req.id)
          /\ Holders(RowsBefore(req.table), req.id) # {}
          /\ req' = req /\ nOps' = nOps + 1) =>
           resp' = [error |-> NotFoundText(req.id, req.table)] ]_vars

\* delete("users", "1") was repeated after it had removed John Doe, the only
\* holder of id "1", and the repeat reported not-found
C2_Witness ==
  /\ Handled("delete") /\ req.table = "users" /\ req.id = "1"
  /\ resp = [error |-> "Record with id 1 not found in table users"]
  /\ tables.rows["users"] = << SeedTables.rows["users"][2] >>

----------------------------------------------------------------------------
\* the record entry i of the last insert request
Entry(i) == req.records[i].fields

\* C4: a successful insert(T, records) returns {ids, success: true} with one
\* id per input record in input order: the record's own id when it carries an
\* id field, else a generated non-empty id distinct from every id generated
\* before; afterwards T is its previous sequence (empty if T was unknown)
\* followed by the input records, each carrying its id, in the order given.
C4_InsertAppendsInOrder ==
  (Handled("insert") /\ ~IsError(resp)) =>
    LET n == Len(req.records)
        GeneratedBefore == { Uuid(k) : k \in 1..prevUuid }
    IN /\ DOMAIN resp = {"ids", "success"}
       /\ resp.success = TRUE
       /\ Len(resp.ids) = n
       /\ \A i \in 1..n :
            IF "id" \in DOMAIN Entry(i)
            THEN resp.ids[i] = Entry(i)["id"]
            ELSE /\ resp.ids[i] \notin {"", Null}
                 /\ resp.ids[i] \notin GeneratedBefore
                 /\ \A j \in 1..(i - 1) :
                      "id" \notin DOMAIN Entry(j) => resp.ids[j] # resp.ids[i]
       /\ HasTable(tables, req.table)
       /\ tables.rows[req.table] =
            RowsBefore(req.table) \o
              [ i \in 1..n |-> [ x \in (DOMAIN Entry(i)) \cup {"id"} |->
                                   IF x = "id" THEN resp.ids[i] ELSE Entry(i)[x] ] ]

\* a second insert that generated an id for one record and kept the explicit
\* id of the next, appended to a table that already held records
C4_Witness ==
  /\ Handled("insert") /\ ~IsError(resp)
  /\ prevUuid > 0
  /\ Len(req.records) = 2
  /\ "id" \notin DOMAIN Entry(1)
  /\ "id" \in DOMAIN Entry(2)
  /\ Len(RowsBefore(req.table)) >= 2
  /\ Len(tables.rows[req.table]) = Len(RowsBefore(req.table)) + 2

----------------------------------------------------------------------------
\* the names a list_tables response carries
Listed(r) == { r.tables[i] : i \in 1..Len(r.tables) }

\* C5: no request ever removes a table name, and every list_tables response
\* lists every known table: so a table created by a successful insert, and
\* the seed tables users, posts and comments, are in every later list_tables
\* result, also after delete has emptied the table.
C5_TablesNeverUnlisted ==
  [][ /\ \A t \in DOMAIN tables.rows : HasTable(tables', t)
      /\ (Handled("list_tables"))' =>
           /\ {"users", "posts", "comments"} \subseteq Listed(resp')
           /\ DOMAIN tables.rows \subseteq Listed(resp')
           /\ DOMAIN tables'.rows \subseteq Listed(resp') ]_vars

\* list_tables lists logs, which an insert created and a delete emptied
C5_Witness ==
  /\ Handled("list_tables")
  /\ "logs" \in Listed(resp)
  /\ tables.rows["logs"] = << >>

----------------------------------------------------------------------------
\* every record of every table has the id it had before the last request
IdsUnchanged ==
  \A t \in DOMAIN prev.rows :
    /\ HasTable(tables, t)
    /\ Len(tables.rows[t]) = Len(prev.rows[t])
    /\ \A i \in 1..Len(prev.rows[t]) : IdOf(tables.rows[t][i]) = IdOf(prev.rows[t][i])

\* C6 (as claimed): update never changes the id of any record.
C6_UpdateKeepsIds == Handled("update") => IdsUnchanged

\* C6 (as amended): update never changes the id of any record, unless the
\* updates mapping itself has an id key: then the first record matching the
\* request's id gets updates' id value, and every other record keeps its id.
C6_UpdateKeepsIdsUnlessGiven ==
  Handled("update") =>
    IF "id" \in DOMAIN req.updates /\ resp = SuccessResp
    THEN LET m == Least(Holders(prev.rows[req.table], req.id)) IN
         /\ IdOf(tables.rows[req.table][m]) = req.updates["id"]
         /\ \A t \in DOMAIN prev.rows :
              /\ HasTable(tables, t)
              /\ Len(tables.rows[t]) = Len(prev.rows[t])
              /\ \A i \in 1..Len(prev.rows[t]) :
                   (t # req.table \/ i # m) =>
                     IdOf(tables.rows[t][i]) = IdOf(prev.rows[t][i])
    ELSE IdsUnchanged

\* an update without an id key changed a field of a record and kept its id
C6_Witness ==
  /\ Handled("update") /\ resp = SuccessResp
  /\ "id" \notin DOMAIN req.updates
  /\ tables # prev
  /\ IdsUnchanged

----------------------------------------------------------------------------
\* C8: first match wins. update and delete touch only the first record, in
\* table order, whose id is the given id: every other record of the table
\* (later holders of the same id included) and every other table is unchanged,
\* and the remaining records keep their order (delete shifts the later ones
\* left by one).
C8_FirstMatchOnly ==
  (Handled("update") \/ Handled("delete")) =>
    /\ tables.keys = prev.keys
    /\ OthersUnchanged(req.table)
    /\ HasTable(prev, req.table) = HasTable(tables, req.table)
    /\ HasTable(prev, req.table) =>
         LET old == prev.rows[req.table]
             new == tables.rows[req.table]
             H == Holders(old, req.id)
         IN IF resp = SuccessResp
            THEN /\ H # {}
                 /\ IF req.fn = "delete"
                    THEN new = Without(old, Least(H))
                    ELSE /\ Len(new) = Len(old)
                         /\ \A j \in 1..Len(old) : j # Least(H) => new[j] = old[j]
                         /\ \A k \in DOMAIN req.updates :
                              new[Least(H)][k] = req.updates[k]
            ELSE new = old

\* a delete that succeeded on a table where two records carried the id, the
\* first of them not at the head of the table
C8_Witness ==
  /\ Handled("delete") /\ resp = SuccessResp
  /\ Cardinality(Holders(prev.rows[req.table], req.id)) >= 2
  /\ Least(Holders(prev.rows[req.table], req.id)) > 1
  /\ Holders(tables.rows[req.table], req.id) # {}

----------------------------------------------------------------------------
\* C3 (as claimed, for requests that carry a table, an id and a non-empty
\* updates mapping; in the not-found case any error response is accepted):
\* update on an existing id answers {success: true}, sets record[k] = v for
\* every (k, v) of updates on the matched record and leaves its other fields
\* untouched; on a non-existent id or table it answers an error and the store
\* is unchanged.
C3_UpdateSetsFieldsOrNotFound ==
  (Handled("update") /\ req.table # Null /\ req.id # Null /\ DOMAIN req.updates # {}) =>
    IF HasTable(prev, req.table) /\ Holders(prev.rows[req.table], req.id) # {}
    THEN LET m == Least(Holders(prev.rows[req.table], req.id))
             old == prev.rows[req.table][m]
             new == tables.rows[req.table][m]
         IN /\ resp = SuccessResp
            /\ DOMAIN new = (DOMAIN old) \cup (DOMAIN req.updates)
            /\ \A k \in DOMAIN req.updates : new[k] = req.updates[k]
            /\ \A k \in (DOMAIN old) \ (DOMAIN req.updates) : new[k] = old[k]
    ELSE IsError(resp) /\ tables = prev

\* C7 (as claimed): an insert request that answers with an error field leaves
\* the set of table names and the contents of every table as they were.
C7_FailedInsertChangesNothing ==
  (Handled("insert") /\ IsError(resp)) => tables = prev

\* C9 (as claimed): for a delete or update request that names an existing
\* table and supplies an id (and, for update, a non-empty updates mapping) the
\* result is {success: true} exactly when some record of the table has that
\* id, and the not-found error otherwise.
C9_OnlyMissingInputIsRejected ==
  ( /\ Handled("update") \/ Handled("delete")
    /\ HasTable(prev, req.table)
    /\ req.id # Null
    /\ Handled("update") => DOMAIN req.updates # {} ) =>
    resp = IF Holders(prev.rows[req.table], req.id) # {}
           THEN SuccessResp
           ELSE [error |-> NotFoundText(req.id, req.table)]

----------------------------------------------------------------------------
\* the requests of entries handled one at a time, in order, from the store
\* tbls: the store reached, and whether every response is the logged one
RECURSIVE OneAtATime(_, _, _)
OneAtATime(tbls, cnt, entries) ==
  IF entries = << >> THEN [tables |-> tbls, uuid |-> cnt, same |-> TRUE]
  ELSE LET h == Handle(tbls, cnt, Head(entries).request)
           rest == OneAtATime(h.tables, h.uuid, Tail(entries))
       IN [rest EXCEPT !.same = @ /\ h.result = Head(entries).result]

\* C10: with requests handled concurrently, every reachable store is the
\* result of applying the handled requests one at a time in the order their
\* handlers resumed, and every response is the one that sequential run gives
\* (no request sees a partly applied insert, update or delete); a handler
\* suspended at its only await has not touched the store.
C10_OneAtATime ==
  LET serial == OneAtATime(SeedTables, 0, log) IN
  /\ serial.tables = tables
  /\ serial.uuid = uuidCount
  /\ serial.same
  /\ Len(log) = nOps

\* two mutations overlapped: the second one handled had arrived before the
\* first one was applied, and both succeeded
C10_Witness ==
  /\ Len(log) >= 2
  /\ log[1].request.fn \in {"insert", "update", "delete"}
  /\ log[2].request.fn \in {"insert", "update", "delete"}
  /\ ~IsError(log[1].result) /\ ~IsError(log[2].result)
  /\ log[2].arrival = SeedTables
  /\ Handle(SeedTables, 0, log[1].request).tables # SeedTables

====
